---------------------------- MODULE Spec2Model ----------------------------
(***************************************************************************)
(* A model of extract_and_save.py: the part-count selector                 *)
(* (determine_num_parts), the paragraph-aware splitter                     *)
(* (split_text_into_parts), the per-document driver (sanitize_filename,    *)
(* extract_text_from_pdf, process_pdf) and the program as a whole.         *)
(*                                                                         *)
(* Representation.  A Python str is the sequence of its code points:       *)
(* "a\n\nb" is <<97, 10, 10, 98>>, "" is <<>>.  A list of str is a         *)
(* sequence of such sequences.  None is the string "None".                 *)
(*                                                                         *)
(* The module-level globals MAX_CHARS_PER_PART, MIN_PARTS and MAX_PARTS    *)
(* are state variables, read by determine_num_parts.                       *)
(*                                                                         *)
(* The file as it stands does not compile: main uses the three globals     *)
(* (lines 234-249) before its `global` statement (line 255), which Python 3*)
(* rejects with a SyntaxError before any line runs.  Spec is the program   *)
(* as it stands; the other specifications call the functions as they are   *)
(* defined.                                                                *)
(*                                                                         *)
(*   Spec         one run of the program from the command line;            *)
(*   SpecSplit    one call of split_text_into_parts on a bounded input;    *)
(*   SpecSelect   one call of determine_num_parts under a bounded policy;  *)
(*   SpecProcess  calls of process_pdf, one after the other on one stats   *)
(*                dict and one output directory, as the loop of lines      *)
(*                292-293 makes them.                                      *)
(***************************************************************************)
EXTENDS Integers, Sequences, FiniteSets

VARIABLES
    MAX_CHARS_PER_PART,  \* global, line 14
    MIN_PARTS,           \* global, line 15
    MAX_PARTS,           \* global, line 16
    pc,                  \* where the modelled call or run stands
    call,                \* the call under way: its arguments, and for the
                         \* program what the file system holds
    ret,                 \* what that call returned
    n_pdf,               \* the number of documents to pass to process_pdf
    handled,             \* documents process_pdf has returned for
    stats,               \* the stats dict
    output_dir,          \* whether the output directory exists
    artifacts,           \* the files in the output directory: for each name
                         \* the number of characters the file holds
    last,                \* the latest process_pdf call: what it saw and did
    exit_code            \* the process's exit status, "None" while running

vars == <<MAX_CHARS_PER_PART, MIN_PARTS, MAX_PARTS, pc, call, ret, n_pdf,
          handled, stats, output_dir, artifacts, last, exit_code>>

(***************************************************************************)
(* Bounds of the model.                                                    *)
(***************************************************************************)
MaxLen == 5          \* longest text handed to split_text_into_parts alone
MaxNumParts == 3     \* largest num_parts handed to it alone
MaxLines == 7        \* most lines of a text made of whole lines
LongLine == 7        \* length of the long lines of such a text
MaxTextLength == 12  \* largest text_length handed to determine_num_parts
MaxCharsArg == 4     \* largest MAX_CHARS_PER_PART of SpecSelect
MaxPartsArg == 3     \* largest MIN_PARTS / MAX_PARTS
MaxNegArg == 1       \* how far below 0 the policy of SpecSelect goes
MaxPdf == 2          \* most PDF files handled one after the other
OldFileBytes == 7    \* size of a file the output directory held beforehand
MaxPages == 1        \* most pages of one PDF
SmallMaxChars == 10  \* a MAX_CHARS_PER_PART below every document's length
LargeMaxChars == 60  \* one above every document's length

(***************************************************************************)
(* Program constants.                                                      *)
(***************************************************************************)
DefaultMaxCharsPerPart == 50000
DefaultMinParts == 2
DefaultMaxParts == 3

None == "None"

Min(S) == CHOOSE x \in S : \A y \in S : x <= y
Max(S) == CHOOSE x \in S : \A y \in S : x >= y

(***************************************************************************)
(* Characters and str methods.                                             *)
(***************************************************************************)
\* ord(c) for the ASCII characters the literals of the source use.
ord(c) ==
    CASE c = "\n" -> 10 [] c = " " -> 32 [] c = "\"" -> 34 [] c = "*" -> 42
      [] c = "-" -> 45 [] c = "." -> 46 [] c = "/" -> 47 [] c = ":" -> 58
      [] c = "<" -> 60 [] c = ">" -> 62 [] c = "?" -> 63 [] c = "\\" -> 92
      [] c = "_" -> 95 [] c = "a" -> 97 [] c = "b" -> 98 [] c = "t" -> 116
      [] c = "x" -> 120 [] c = "|" -> 124

\* A literal, written as its characters, as a str.
Enc(chars) == [i \in 1..Len(chars) |-> ord(chars[i])]

\* str(n) for n >= 0, as the f-strings of lines 115 and 179 format it.
RECURSIVE str_int(_)
str_int(n) ==
    IF n < 10 THEN <<48 + n>> ELSE Append(str_int(n \div 10), 48 + (n % 10))

\* The characters str.strip() removes and the regular expression \s
\* matches: those with str.isspace().
Whitespace ==
    (9..13) \cup (28..32) \cup {133, 160, 5760} \cup (8192..8202)
    \cup {8232, 8233, 8239, 8287, 12288}

\* str.strip(): the text without its leading and trailing whitespace.
strip(s) ==
    LET keep == {i \in 1..Len(s) : s[i] \notin Whitespace}
    IN  IF keep = {} THEN <<>> ELSE SubSeq(s, Min(keep), Max(keep))

\* str.split(sep): cut at the leftmost non-overlapping occurrences of sep.
RECURSIVE split(_, _)
split(s, sep) ==
    LET at == {i \in 1..(Len(s) - Len(sep) + 1) :
                  \A j \in 1..Len(sep) : s[i + j - 1] = sep[j]}
    IN  IF at = {} THEN <<s>>
        ELSE <<SubSeq(s, 1, Min(at) - 1)>>
              \o split(SubSeq(s, Min(at) + Len(sep), Len(s)), sep)

NL == <<10>>
NLNL == <<10, 10>>

(***************************************************************************)
(* split_text_into_parts, lines 28-81.                                     *)
(***************************************************************************)
\* [p.strip() for p in text.split(sep) if p.strip()], lines 36 and 40
StripNonBlank(pieces) ==
    LET stripped == [i \in 1..Len(pieces) |-> strip(pieces[i])]
    IN  SelectSeq(stripped, LAMBDA p : p # <<>>)

\* lines 36-40: the paragraph units, by "\n\n" or, when fewer than
\* num_parts, by "\n"
paragraphs(text, num_parts) ==
    LET by2 == StripNonBlank(split(text, NLNL))
    IN  IF Len(by2) < num_parts THEN StripNonBlank(split(text, NL)) ELSE by2

\* Lines 48-51: the loop's variables before the first paragraph.
\* chars_per_part = total_chars / num_parts is a float; the model keeps
\* target_chars * num_parts, an integer: target_scaled.  The comparison of
\* line 58 is then exact integer arithmetic (the float agrees with it for
\* every total_chars < 400 and num_parts <= 6).
LoopInit(text) ==
    [parts |-> <<>>, current_part |-> <<>>, current_chars |-> 0,
     target_scaled |-> Len(text)]

\* LoopBody with the last-part test of line 58 off by one
\* (len(parts) == num_parts): the loop no longer stops closing parts in time.
LoopBody_LastPartOffByOne(st, paragraph, text, num_parts) ==
    LET para_chars == Len(paragraph)
    IN  IF \/ (st.current_chars + para_chars) * num_parts <= st.target_scaled
           \/ Len(st.parts) = num_parts
        THEN [st EXCEPT
                !.current_part =
                    IF st.current_part # <<>>
                    THEN st.current_part \o NLNL \o paragraph
                    ELSE paragraph,
                !.current_chars = st.current_chars + para_chars + 2]
        ELSE LET closed == IF st.current_part # <<>>
                           THEN Append(st.parts, strip(st.current_part))
                           ELSE st.parts
             IN  [parts |-> closed,
                  current_part |-> paragraph,
                  current_chars |-> para_chars,
                  target_scaled |-> Len(text) * (Len(closed) + 1)]

\* LoopBody with line 60 joining by "\n" instead of "\n\n".
LoopBody_SingleNewline(st, paragraph, text, num_parts) ==
    LET para_chars == Len(paragraph)
    IN  IF \/ (st.current_chars + para_chars) * num_parts <= st.target_scaled
           \/ Len(st.parts) = num_parts - 1
        THEN [st EXCEPT
                !.current_part =
                    IF st.current_part # <<>>
                    THEN st.current_part \o NL \o paragraph
                    ELSE paragraph,
                !.current_chars = st.current_chars + para_chars + 2]
        ELSE LET closed == IF st.current_part # <<>>
                           THEN Append(st.parts, strip(st.current_part))
                           ELSE st.parts
             IN  [parts |-> closed,
                  current_part |-> paragraph,
                  current_chars |-> para_chars,
                  target_scaled |-> Len(text) * (Len(closed) + 1)]

\* Lines 54-69: one iteration of the loop.
LoopBody(st, paragraph, text, num_parts) ==
    LET para_chars == Len(paragraph)
    IN  IF \/ (st.current_chars + para_chars) * num_parts <= st.target_scaled
           \/ Len(st.parts) = num_parts - 1
        THEN [st EXCEPT
                !.current_part =
                    IF st.current_part # <<>>
                    THEN st.current_part \o NLNL \o paragraph
                    ELSE paragraph,
                !.current_chars = st.current_chars + para_chars + 2]
        ELSE LET closed == IF st.current_part # <<>>
                           THEN Append(st.parts, strip(st.current_part))
                           ELSE st.parts
             IN  [parts |-> closed,
                  current_part |-> paragraph,
                  current_chars |-> para_chars,
                  target_scaled |-> Len(text) * (Len(closed) + 1)]

\* Lines 53-69: the loop over the first k paragraphs.
RECURSIVE Loop(_, _, _, _)
Loop(paras, k, text, num_parts) ==
    IF k = 0 THEN LoopInit(text)
    ELSE LoopBody(Loop(paras, k - 1, text, num_parts), paras[k], text,
                  num_parts)

\* Lines 71-73: the last part is appended.
Collected(text, num_parts) ==
    LET paras == paragraphs(text, num_parts)
        st == Loop(paras, Len(paras), text, num_parts)
    IN  IF st.current_part # <<>>
        THEN Append(st.parts, strip(st.current_part))
        ELSE st.parts

\* Lines 75-79: empty strings are appended up to num_parts entries.
Padded(parts, num_parts) ==
    IF Len(parts) < num_parts /\ Len(parts) > 0
    THEN parts \o [i \in 1..(num_parts - Len(parts)) |-> <<>>]
    ELSE parts

\* Line 81: parts[:num_parts], for num_parts >= 0.
Truncated(parts, num_parts) ==
    SubSeq(parts, 1, Min({num_parts, Len(parts)}))

\* Line 46 divides by num_parts: ZeroDivisionError when it is 0 and the
\* text passed the guards of lines 32 and 42.
split_raises(text, num_parts) ==
    /\ strip(text) # <<>>
    /\ num_parts = 0

\* split_text_into_parts with the grouping loop and the clamp of line 81
\* left out: every paragraph unit is returned as a part of its own.
split_text_ungrouped(text, num_parts) ==
    IF strip(text) = <<>> THEN <<text>>
    ELSE IF Len(paragraphs(text, num_parts)) = 0 THEN <<text>>
    ELSE paragraphs(text, num_parts)

\* The value returned, for num_parts >= 1.
split_text_into_parts(text, num_parts) ==
    IF strip(text) = <<>> THEN <<text>>
    ELSE IF Len(paragraphs(text, num_parts)) = 0 THEN <<text>>
    ELSE Truncated(Padded(Collected(text, num_parts), num_parts), num_parts)


(***************************************************************************)
(* determine_num_parts, lines 83-96.                                       *)
(***************************************************************************)
\* math.ceil(a / b) for a >= 0 and b # 0
ceil_div(a, b) == IF b > 0 THEN -((-a) \div b) ELSE -(a \div (-b))

\* Line 91 divides by MAX_CHARS_PER_PART: ZeroDivisionError when it is 0
\* and line 87 did not return.
determine_raises(text_length) ==
    /\ text_length > MAX_CHARS_PER_PART
    /\ MAX_CHARS_PER_PART = 0

\* The value returned, when nothing is raised.
determine_num_parts(text_length) ==
    IF text_length <= MAX_CHARS_PER_PART THEN 1
    ELSE LET min_required == ceil_div(text_length, MAX_CHARS_PER_PART)
         IN  Max({MIN_PARTS, Min({min_required, MAX_PARTS})})

(***************************************************************************)
(* sanitize_filename, lines 18-26.                                         *)
(***************************************************************************)
\* The characters of the class [<>:"/\\|?*], line 23.
Forbidden == {ord(c) : c \in {"<", ">", ":", "\"", "/", "\\", "|", "?", "*"}}

\* re.sub(r'\s+', ' ', s), line 25: every run of whitespace becomes one
\* space.
RECURSIVE CollapseSpaces(_, _)
CollapseSpaces(s, k) ==
    IF k = 0 THEN <<>>
    ELSE IF s[k] \notin Whitespace THEN Append(CollapseSpaces(s, k - 1), s[k])
    ELSE IF k > 1 /\ s[k - 1] \in Whitespace THEN CollapseSpaces(s, k - 1)
    ELSE Append(CollapseSpaces(s, k - 1), 32)

sanitize_filename(filename) ==
    LET replaced == [i \in 1..Len(filename) |->
                        IF filename[i] \in Forbidden THEN 95 ELSE filename[i]]
    IN  strip(CollapseSpaces(replaced, Len(replaced)))

(***************************************************************************)
(* extract_text_from_pdf, lines 98-128.                                    *)
(*                                                                         *)
(* A PDF is [stem, opens, pages]: the stem of its file name, whether       *)
(* pdfplumber.open succeeds, and for each page what page.extract_text()    *)
(* does: [kind |-> "raise"], [kind |-> "none"] (it returns None) or        *)
(* [kind |-> "text", text |-> str].                                        *)
(***************************************************************************)
\* f"\n--- Страница {page_num} ---\n", line 115
PageMarker(page_num) ==
    Enc(<<"\n", "-", "-", "-", " ">>)
    \o <<1057, 1090, 1088, 1072, 1085, 1080, 1094, 1072>>
    \o Enc(<<" ">>) \o str_int(page_num) \o Enc(<<" ", "-", "-", "-", "\n">>)

\* Lines 111-120: full_text and error_msg after the first k pages.
RECURSIVE PagesLoop(_, _)
PagesLoop(pages, k) ==
    IF k = 0 THEN [full_text |-> <<>>, error_msg |-> None]
    ELSE LET st == PagesLoop(pages, k - 1)
             page == pages[k]
         IN  IF page.kind = "raise"
             THEN [st EXCEPT !.error_msg = "page_error"]
             ELSE IF page.kind = "text" /\ page.text # <<>>
                     /\ strip(page.text) # <<>>
             THEN [st EXCEPT !.full_text =
                       st.full_text \o PageMarker(k) \o page.text \o NL]
             ELSE st

\* (full_text, total_pages, error_msg)
extract_text_from_pdf(pdf) ==
    IF ~pdf.opens
    THEN [full_text |-> <<>>, total_pages |-> 0, error_msg |-> "open_error"]
    ELSE LET st == PagesLoop(pdf.pages, Len(pdf.pages))
         IN  [full_text |-> st.full_text,
              total_pages |-> Len(pdf.pages),
              error_msg |-> IF strip(st.full_text) = <<>>
                            THEN "no_text" ELSE st.error_msg]

(***************************************************************************)
(* process_pdf, lines 130-193.                                             *)
(*                                                                         *)
(* The output directory is a function from the names of its files to the   *)
(* number of bytes each holds.  open(..., 'w') creates the file, or        *)
(* empties the one of that name, before anything is written; the text goes *)
(* out encoded in UTF-8 (errors='replace'), "\n" as it is.  A save may     *)
(* fail at open(), which leaves the directory as it was, or at the write   *)
(* (full disk, quota, file size limit), which leaves the file with any     *)
(* number of the text's bytes, from none to all of them.                   *)
(***************************************************************************)
\* Code points that UTF-8 cannot encode: the lone surrogates, which a file
\* name holds where its bytes are not valid UTF-8.
Surrogates == 55296..57343

\* Line 134 prints pdf_file.name to a stdout that line 11 set to UTF-8
\* (errors strict): UnicodeEncodeError when the name holds a surrogate.
print_raises(name) == \E i \in 1..Len(name) : name[i] \in Surrogates

\* The bytes one character takes in a file opened with encoding='utf-8',
\* errors='replace' (a surrogate is written as "?").
utf8_char(c) ==
    IF c < 128 \/ c \in Surrogates THEN 1
    ELSE IF c < 2048 THEN 2
    ELSE IF c < 65536 THEN 3
    ELSE 4

RECURSIVE utf8_len(_)
utf8_len(text) ==
    IF text = <<>> THEN 0 ELSE utf8_char(Head(text)) + utf8_len(Tail(text))

\* f"{base_name}.txt", line 157
SingleName(base_name) == base_name \o Enc(<<".", "t", "x", "t">>)

\* f"{base_name}_часть{part_num}_из{num_parts}.txt", line 179
PartName(base_name, part_num, num_parts) ==
    base_name \o <<95, 1095, 1072, 1089, 1090, 1100>> \o str_int(part_num)
    \o <<95, 1080, 1079>> \o str_int(num_parts) \o Enc(<<".", "t", "x", "t">>)

Bump(st, key) == [st EXCEPT ![key] = st[key] + 1]

\* The output directory with no file in it.
EmptyDir == [name \in {} |-> 0]

\* The directory dir after the files of the function files are created or
\* replaced in it.
Overwrite(dir, files) ==
    [name \in DOMAIN dir \cup DOMAIN files |->
        IF name \in DOMAIN files THEN files[name] ELSE dir[name]]

\* What the try block of lines 159-168 or 181-188 may do with one text:
\* save it, raise at open(), or raise at the write with bytes of the text's
\* bytes in the file.
SaveOutcomes(text) ==
    {[kind |-> "saved", bytes |-> utf8_len(text)],
     [kind |-> "open_fails", bytes |-> 0]}
    \cup {[kind |-> "write_fails", bytes |-> k] : k \in 0..utf8_len(text)}

\* Lines 174-177: a blank part is passed over.
Skipped == [kind |-> "skipped", bytes |-> 0]

\* The ways the saves of one call may go: for each of the first k texts one
\* outcome, Skipped for a blank one.
RECURSIVE IoChoices(_, _)
IoChoices(texts, k) ==
    IF k = 0 THEN {<<>>}
    ELSE {Append(io, o) :
             io \in IoChoices(texts, k - 1),
             o \in IF strip(texts[k]) = <<>> THEN {Skipped}
                   ELSE SaveOutcomes(texts[k])}

\* Lines 134-172: what the call does before it saves anything.  branch is
\* the way it takes; texts are the texts it goes on to save (the whole text
\* of an unsplit document, the parts of a split one) and names the file
\* names it gives them.
Prepared(pdf) ==
    LET ex == extract_text_from_pdf(pdf)
        full_text == ex.full_text
        text_length == Len(full_text)
        num_parts == determine_num_parts(text_length)
        base_name == sanitize_filename(pdf.stem)
        parts == split_text_into_parts(full_text, num_parts)
        quiet == [branch |-> "raised", opened |-> pdf.opens,
                  has_text |-> strip(full_text) # <<>>,
                  base_name |-> base_name, num_parts |-> 0,
                  texts |-> <<>>, names |-> <<>>]
    IN  IF print_raises(pdf.stem)
        THEN [quiet EXCEPT !.opened = FALSE, !.has_text = FALSE]
        ELSE IF ex.error_msg # None /\ strip(full_text) = <<>>
        THEN [quiet EXCEPT !.branch = "errors"]
        ELSE IF strip(full_text) = <<>>
        THEN [quiet EXCEPT !.branch = "empty"]
        ELSE IF determine_raises(text_length)
        THEN quiet
        ELSE IF num_parts = 1
        THEN [quiet EXCEPT !.branch = "single", !.num_parts = 1,
                           !.texts = <<full_text>>,
                           !.names = <<SingleName(base_name)>>]
        ELSE IF split_raises(full_text, num_parts)
        THEN [quiet EXCEPT !.num_parts = num_parts]
        ELSE [quiet EXCEPT
                 !.branch = "split", !.num_parts = num_parts,
                 !.texts = parts,
                 !.names = [i \in 1..Len(parts) |->
                               PartName(base_name, i, num_parts)]]

\* The part numbers whose file is opened, and those whose text is saved.
PartsOpened(io) ==
    {i \in 1..Len(io) : io[i].kind \in {"saved", "write_fails"}}

PartsSaved(io) == {i \in 1..Len(io) : io[i].kind = "saved"}

SumLen(parts, S) ==
    LET RECURSIVE Sum(_)
        Sum(k) == IF k = 0 THEN 0
                  ELSE Sum(k - 1) + (IF k \in S THEN Len(parts[k]) ELSE 0)
    IN  Sum(Len(parts))

\* Lines 136-193 after Prepared: the saves, going as io says, and the
\* counting.  The result is the stats dict after the call, the files the
\* call created or replaced, the names of those saved, whether a save
\* raised (and was caught), and whether an exception left the function.
Saved(prep, st, io) ==
    LET opened == PartsOpened(io)
        saved == PartsSaved(io)
    IN  [stats |->
            CASE prep.branch = "errors" -> Bump(st, "errors")
              [] prep.branch = "empty" -> Bump(st, "empty")
              [] prep.branch = "single" ->
                    IF saved # {}
                    THEN [Bump(st, "processed") EXCEPT
                             !.total_chars = @ + Len(prep.texts[1])]
                    ELSE Bump(st, "errors")
              [] prep.branch = "split" ->
                    IF saved # {}
                    THEN [Bump(Bump(st, "processed"), "split") EXCEPT
                             !.total_chars = @ + SumLen(prep.texts, saved)]
                    ELSE st
              [] OTHER -> st,
         files |-> [name \in {prep.names[i] : i \in opened} |->
                       io[CHOOSE i \in opened : prep.names[i] = name].bytes],
         written |-> {prep.names[i] : i \in saved},
         raised |-> prep.branch = "raised",
         opened |-> prep.opened,
         has_text |-> prep.has_text,
         base_name |-> prep.base_name,
         num_parts |-> prep.num_parts,
         saved_parts |-> Cardinality(saved),
         write_failed |-> \E i \in 1..Len(io) :
                             io[i].kind \in {"open_fails", "write_fails"}]

\* process_pdf(pdf_file, output_dir, stats), with io telling how its saves
\* go.
process_pdf(pdf, st, io) == Saved(Prepared(pdf), st, io)

(***************************************************************************)
(* Inputs of the bounded runs.                                             *)
(***************************************************************************)
\* a, b, space, "\n", "\r"
Alphabet == {97, 98, 32, 10, 13}

RECURSIVE StrUpTo(_)
StrUpTo(n) ==
    IF n = 0 THEN {<<>>}
    ELSE LET shorter == StrUpTo(n - 1)
         IN  shorter \cup {Append(s, c) : s \in shorter, c \in Alphabet}

\* Longer texts, made of short ("a") and long ("aa...a") lines with one
\* "\n" between them: here the running count of line 62, which adds 2 for
\* every unit, can pass total_chars, and only the last-part test of line 58
\* keeps the loop from closing one part too many.
Line(n) == [i \in 1..n |-> 97]

RECURSIVE LineTextsOf(_)
LineTextsOf(n) ==
    IF n = 1 THEN {Line(1), Line(LongLine)}
    ELSE {t \o NL \o l : t \in LineTextsOf(n - 1),
                          l \in {Line(1), Line(LongLine)}}

LineTexts == UNION {LineTextsOf(n) : n \in 1..MaxLines}

Texts == StrUpTo(MaxLen) \cup LineTexts

\* What page.extract_text() may give for one page: an exception, None, a
\* blank text (form feed, space), "a", "a\n\nb".
PageOutcomes ==
    {[kind |-> "raise"], [kind |-> "none"]}
    \cup {[kind |-> "text", text |-> t] :
             t \in {<<12, 32>>, <<97>>, <<97, 10, 10, 98>>}}

RECURSIVE PagesUpTo(_)
PagesUpTo(n) ==
    IF n = 0 THEN {<<>>}
    ELSE LET shorter == PagesUpTo(n - 1)
         IN  shorter \cup {Append(ps, p) : ps \in shorter, p \in PageOutcomes}

\* File name stems: "x?" and "x*", which sanitize to the same name, and one
\* that holds the surrogate of an undecodable byte.
Stems == {Enc(<<"x", "?">>), Enc(<<"x", "*">>), <<56575>>}

Pdfs ==
    {[stem |-> n, opens |-> FALSE, pages |-> <<>>] : n \in Stems}
    \cup {[stem |-> n, opens |-> TRUE, pages |-> ps] :
             n \in Stems, ps \in PagesUpTo(MaxPages)}

MaxCharsArgs == {0, SmallMaxChars, LargeMaxChars}

\* What the output directory may hold before the first call (line 279
\* takes a directory that exists as it is): nothing, or files under names
\* the calls may use.
InitialDirs ==
    {EmptyDir,
     [name \in {SingleName(sanitize_filename(Enc(<<"x", "?">>))),
                PartName(sanitize_filename(Enc(<<"x", "?">>)), 1,
                         MaxPartsArg)}
         |-> OldFileBytes]}

ZeroStats ==
    [processed |-> 0, errors |-> 0, empty |-> 0, split |-> 0, total_chars |-> 0]

NoCall == [fn |-> "none"]
NoRet == [raised |-> FALSE, value |-> <<>>]
NoLast == [called |-> FALSE]

\* The driver's variables while nothing has been processed.
DriverIdle ==
    /\ n_pdf = 0
    /\ handled = 0
    /\ stats = ZeroStats
    /\ output_dir = FALSE
    /\ artifacts = EmptyDir
    /\ last = NoLast
    /\ exit_code = None

(***************************************************************************)
(* SpecSplit: one call of split_text_into_parts(text, num_parts).          *)
(***************************************************************************)
InitSplit ==
    /\ MAX_CHARS_PER_PART = DefaultMaxCharsPerPart
    /\ MIN_PARTS = DefaultMinParts
    /\ MAX_PARTS = DefaultMaxParts
    /\ pc = "call"
    /\ call \in {[fn |-> "split_text_into_parts", text |-> t, num_parts |-> n] :
                    t \in Texts, n \in 1..MaxNumParts}
    /\ ret = NoRet
    /\ DriverIdle

SplitCall ==
    /\ pc = "call"
    /\ call.fn = "split_text_into_parts"
    /\ ret' = [raised |-> FALSE,
               value |-> split_text_into_parts(call.text, call.num_parts)]
    /\ pc' = "returned"
    /\ UNCHANGED <<MAX_CHARS_PER_PART, MIN_PARTS, MAX_PARTS, call, n_pdf,
                   handled, stats, output_dir, artifacts, last, exit_code>>

SpecSplit == InitSplit /\ [][SplitCall]_vars

(***************************************************************************)
(* SpecSelect: one call of determine_num_parts(text_length) under a policy.*)
(***************************************************************************)
InitSelect ==
    /\ MAX_CHARS_PER_PART \in (-MaxNegArg)..MaxCharsArg
    /\ MIN_PARTS \in (-MaxNegArg)..MaxPartsArg
    /\ MAX_PARTS \in (-MaxNegArg)..MaxPartsArg
    /\ pc = "call"
    /\ call \in {[fn |-> "determine_num_parts", text_length |-> n] :
                    n \in 0..MaxTextLength}
    /\ ret = NoRet
    /\ DriverIdle

SelectCall ==
    /\ pc = "call"
    /\ call.fn = "determine_num_parts"
    /\ ret' = IF determine_raises(call.text_length)
              THEN [raised |-> TRUE, value |-> 0]
              ELSE [raised |-> FALSE,
                    value |-> determine_num_parts(call.text_length)]
    /\ pc' = "returned"
    /\ UNCHANGED <<MAX_CHARS_PER_PART, MIN_PARTS, MAX_PARTS, call, n_pdf,
                   handled, stats, output_dir, artifacts, last, exit_code>>

SpecSelect == InitSelect /\ [][SelectCall]_vars

(***************************************************************************)
(* SpecProcess: process_pdf called for n_pdf documents in turn, on a stats *)
(* dict that starts as lines 283-289 write it and an output directory that *)
(* exists, with or without files in it, under a policy.                    *)
(***************************************************************************)
InitProcess ==
    /\ MAX_CHARS_PER_PART \in MaxCharsArgs
    /\ MIN_PARTS \in 0..MaxPartsArg
    /\ MAX_PARTS \in 0..MaxPartsArg
    /\ pc = "loop"
    /\ call = NoCall
    /\ ret = NoRet
    /\ n_pdf \in 1..MaxPdf
    /\ handled = 0
    /\ stats = ZeroStats
    /\ output_dir = TRUE
    /\ artifacts \in InitialDirs
    /\ last = NoLast
    /\ exit_code = None

\* One call, the whole of process_pdf.  A file opened under a name the
\* directory already holds replaces that file.  An exception that leaves
\* process_pdf ends the calls.
ProcessPdf ==
    /\ pc = "loop"
    /\ handled < n_pdf
    /\ \E pdf \in Pdfs :
        \E prep \in {Prepared(pdf)} :
          \E io \in IoChoices(prep.texts, Len(prep.texts)) :
            \E r \in {Saved(prep, stats, io)} :
              /\ stats' = r.stats
              /\ artifacts' = Overwrite(artifacts, r.files)
              /\ last' = [called |-> TRUE,
                          opened |-> r.opened,
                          has_text |-> r.has_text,
                          base_name |-> r.base_name,
                          num_parts |-> r.num_parts,
                          written |-> r.written,
                          write_failed |-> r.write_failed,
                          raised |-> r.raised]
              /\ IF r.raised
                 THEN /\ pc' = "raised"
                      /\ UNCHANGED handled
                 ELSE /\ handled' = handled + 1
                      /\ UNCHANGED pc
    /\ UNCHANGED <<MAX_CHARS_PER_PART, MIN_PARTS, MAX_PARTS, call, ret, n_pdf,
                   output_dir, exit_code>>

SpecProcess == InitProcess /\ [][ProcessPdf]_vars

(***************************************************************************)
(* Spec: one run of the program, python extract_and_save.py <arguments>.   *)
(* call holds the arguments and what the file system holds: whether the    *)
(* input directory exists and how many PDF files it has.                   *)
(***************************************************************************)
Init ==
    /\ MAX_CHARS_PER_PART = DefaultMaxCharsPerPart
    /\ MIN_PARTS = DefaultMinParts
    /\ MAX_PARTS = DefaultMaxParts
    /\ pc = "launch"
    /\ call \in {[fn |-> "program", max_chars |-> mc, min_parts |-> mn,
                  max_parts |-> mx, dir_exists |-> d, found |-> f] :
                    mc \in MaxCharsArgs, mn \in 0..MaxPartsArg,
                    mx \in 0..MaxPartsArg, d \in BOOLEAN, f \in 0..MaxPdf}
    /\ ret = NoRet
    /\ DriverIdle

\* The interpreter compiles the file before it runs any of it.  In main the
\* names MAX_CHARS_PER_PART, MIN_PARTS and MAX_PARTS are used on lines
\* 234-249 and declared global on line 255: "SyntaxError: name
\* 'MAX_CHARS_PER_PART' is used prior to global declaration".  Nothing is
\* run, whatever the arguments, and the interpreter exits with status 1.
Launch ==
    /\ pc = "launch"
    /\ exit_code' = 1
    /\ pc' = "exited"
    /\ UNCHANGED <<MAX_CHARS_PER_PART, MIN_PARTS, MAX_PARTS, call, ret, n_pdf,
                   handled, stats, output_dir, artifacts, last>>

Next == Launch

Spec == Init /\ [][Next]_vars

(***************************************************************************)
(* Properties.                                                             *)
(***************************************************************************)
\* str.join(sep, items)
RECURSIVE join(_, _)
join(sep, items) ==
    IF items = <<>> THEN <<>>
    ELSE IF Len(items) = 1 THEN items[1]
    ELSE items[1] \o sep \o join(sep, Tail(items))

\* The paragraph units of the segments, read in segment order: each segment
\* is cut at "\n\n" again.
RECURSIVE UnitsOf(_)
UnitsOf(segments) ==
    IF segments = <<>> THEN <<>>
    ELSE StripNonBlank(split(segments[1], NLNL)) \o UnitsOf(Tail(segments))

Returned == pc = "returned"
NonBlankInput == strip(call.text) # <<>>

\* C1: for a text that is not whitespace-only and num_parts >= 1, every
\* element of the list split_text_into_parts returns is non-empty after
\* trimming.  (Lines 76-79 append "" up to num_parts entries.)
C1_EverySegmentNonEmpty ==
    (Returned /\ NonBlankInput) =>
        \A i \in 1..Len(ret.value) : strip(ret.value[i]) # <<>>

\* C2: for a non-blank text and num_parts >= 1, the paragraph units of the
\* returned segments, in segment order, are exactly the units tokenized
\* from the text, in order: none lost, duplicated or reordered, and the
\* truncation of line 81 discards no segment that holds a unit.
C2_UnitsPreserved ==
    (Returned /\ NonBlankInput) =>
        /\ UnitsOf(ret.value) = paragraphs(call.text, call.num_parts)
        /\ Len(Collected(call.text, call.num_parts)) <= call.num_parts

\* The last-part test of line 58 decides: with num_parts - 1 parts closed
\* and a part open, some unit passes target_chars and is taken all the same.
LastPartTestDecides(text, num_parts) ==
    LET paras == paragraphs(text, num_parts)
    IN  \E k \in 1..Len(paras) :
           \E st \in {Loop(paras, k - 1, text, num_parts)} :
              /\ st.current_part # <<>>
              /\ Len(st.parts) = num_parts - 1
              /\ (st.current_chars + Len(paras[k])) * num_parts
                    > st.target_scaled

\* C2 witness: a text on which only the last-part test keeps the list
\* within num_parts, so that without it line 81 would cut a unit off.
C2_Witness ==
    /\ Returned
    /\ NonBlankInput
    /\ call.num_parts >= 2
    /\ LastPartTestDecides(call.text, call.num_parts)
    /\ Len(ret.value) = call.num_parts

\* C3: for every text, blank or not, and num_parts >= 1, the returned list
\* has at most num_parts elements.
C3_AtMostNumParts ==
    Returned => Len(ret.value) <= call.num_parts

\* C3 witness: a text with more paragraph units than requested parts.
C3_Witness ==
    /\ Returned
    /\ NonBlankInput
    /\ Len(StripNonBlank(split(call.text, NLNL))) > call.num_parts
    /\ Len(ret.value) = call.num_parts

\* C6 as stated: split_text_into_parts(text, 1) returns [text], text
\* unchanged.
C6_IdentityOnOnePart ==
    (Returned /\ call.num_parts = 1) => ret.value = <<call.text>>

\* C6 amended: split_text_into_parts(text, 1) returns a one-element list;
\* the element is text unchanged when text is empty or whitespace-only, and
\* otherwise the "\n\n"-separated paragraphs of text, each trimmed, the
\* blank ones dropped, joined by "\n\n".
C6_OnePartNormalized ==
    (Returned /\ call.num_parts = 1) =>
        /\ Len(ret.value) = 1
        /\ ret.value[1] =
              IF NonBlankInput
              THEN join(NLNL, StripNonBlank(split(call.text, NLNL)))
              ELSE call.text

\* C6 witness: one part asked of a text with several paragraphs, which
\* comes back changed.
C6_Witness ==
    /\ Returned
    /\ call.num_parts = 1
    /\ Len(StripNonBlank(split(call.text, NLNL))) >= 2
    /\ ret.value # <<call.text>>

PositivePolicy ==
    MAX_CHARS_PER_PART >= 1 /\ MIN_PARTS >= 1 /\ MAX_PARTS >= 1

\* C4: once splitting is triggered (text_length > max_chars_per_part), the
\* value returned by determine_num_parts lies in [min_parts, max_parts],
\* for every policy of positive integers.
C4_ResultWithinPolicy ==
    (Returned /\ PositivePolicy /\ call.text_length > MAX_CHARS_PER_PART) =>
        /\ ~ret.raised
        /\ MIN_PARTS <= ret.value
        /\ ret.value <= MAX_PARTS

\* What C5 says determine_num_parts returns: 1 up to max_chars_per_part,
\* and beyond it the quotient rounded up, q, clamped; q is the least integer
\* that is no less than text_length / max_chars_per_part.
C5_Value ==
    Returned =>
        /\ ~ret.raised
        /\ IF call.text_length <= MAX_CHARS_PER_PART
           THEN ret.value = 1
           ELSE \E q \in (-call.text_length)..call.text_length :
                   /\ IF MAX_CHARS_PER_PART > 0
                      THEN /\ (q - 1) * MAX_CHARS_PER_PART < call.text_length
                           /\ call.text_length <= q * MAX_CHARS_PER_PART
                      ELSE /\ MAX_CHARS_PER_PART < 0
                           /\ (q - 1) * MAX_CHARS_PER_PART > call.text_length
                           /\ call.text_length >= q * MAX_CHARS_PER_PART
                   /\ ret.value = Max({MIN_PARTS, Min({q, MAX_PARTS})})

\* C5: for every text_length >= 0 and every policy, determine_num_parts
\* returns 1 when text_length <= max_chars_per_part and otherwise
\* max(min_parts, min(ceil(text_length / max_chars_per_part), max_parts));
\* the call leaves the policy as it was.
C5_SelectorFormula ==
    /\ []C5_Value
    /\ [][/\ MAX_CHARS_PER_PART' = MAX_CHARS_PER_PART
          /\ MIN_PARTS' = MIN_PARTS
          /\ MAX_PARTS' = MAX_PARTS]_vars

\* C7: a PDF that opens but whose pages yield no non-blank text adds one to
\* 'empty', leaves 'errors' and 'processed' alone and writes no artifact.
C7_NoTextCountsAsEmpty ==
    [][(handled' = handled + 1 /\ last'.opened /\ ~last'.has_text) =>
          /\ stats'.empty = stats.empty + 1
          /\ stats'.errors = stats.errors
          /\ stats'.processed = stats.processed
          /\ artifacts' = artifacts]_vars

\* C8: a run exits non-zero if and only if the input directory does not
\* exist or no PDF is found, and then before the output directory is made
\* and before any document is processed; every other run exits with 0.
C8_ExitStatus ==
    pc = "exited" =>
        LET early == ~call.dir_exists \/ call.found = 0
        IN  /\ (exit_code # 0) <=> early
            /\ early => (~output_dir /\ ~last.called /\ handled = 0)

\* C9: a document split into M > 1 parts, every write succeeding, leaves
\* exactly M artifacts, one for each part number 1..M.
C9_OneArtifactPerPart ==
    (last.called /\ ~last.raised /\ last.num_parts > 1 /\ ~last.write_failed)
        => last.written = {PartName(last.base_name, n, last.num_parts) :
                              n \in 1..last.num_parts}

\* C10: after k documents, processed + errors + empty = k and
\* split <= processed, whatever failed on the way.
C10_EveryDocumentCounted ==
    /\ stats.processed + stats.errors + stats.empty = handled
    /\ stats.split <= stats.processed

=============================================================================
